---- MODULE Spec2Model ----
(***************************************************************************)
(* Contract obligation extractor (nuggetswise/spellbook).                  *)
(*                                                                         *)
(* A text is a sequence of characters; a character is a one-character      *)
(* string.  The backquote cannot be written inside a TLA+ string, so it is *)
(* the character named BQ below.                                           *)
(***************************************************************************)
EXTENDS Integers, Sequences, FiniteSets, TLC

VARIABLES
    gate_params,    \* the shape of the text handed to validate_contract_text
    gate_text,      \* the text handed to validate_contract_text
    gate_done,      \* validate_contract_text has returned
    gate_ok,        \* its return value
    val_input,      \* the provider response handed to validate_json_response
    val_done,       \* validate_json_response has returned
    val_result,     \* its return value
    val_candidate,  \* what clean_json_response made of the response text
    openai_client,  \* LLMService.openai_client is not None
    gemini_model,   \* LLMService.gemini_model is not None
    consumer,       \* who uses the extractor: the dashboard or another program
    pc,             \* where the request in progress stands
    caller,         \* who called ObligationExtractor.process_contract
    doc,            \* file_content and file_type of the request
    contract_text,  \* process_contract: contract_text
    parser_used,    \* process_contract: parser_used
    openai_resp,    \* what OpenAI answered in this request
    gemini_resp,    \* what Gemini answered in this request
    obligations,    \* process_contract: obligations
    api_used,       \* process_contract: api_used
    processed,      \* process_contract: processed_obligations
    result,         \* what process_contract returned
    log,            \* the calls made in this request, in order
    requests,       \* what was sent to the providers in this request, in order
    processing,     \* st.session_state.processing
    extraction_results, \* st.session_state.extraction_results
    ui_status,      \* label of the st.status box
    ui_message,     \* what st.error showed in this request
    party_input,    \* the name handed to sanitize_party_name
    party_out,      \* what its successive applications returned
    risk_input,     \* the risk levels of a list handed to _generate_risk_summary
    risk_done,      \* _generate_risk_summary has returned
    risk_summary,   \* its return value
    post_input,     \* the list handed to _post_process_obligations
    post_done,      \* _post_process_obligations has returned
    post_out,       \* its return value
    fb_result       \* what _extract_with_fallback_prompt returned

gateVars == <<gate_params, gate_text, gate_done, gate_ok>>

valVars == <<val_input, val_done, val_result, val_candidate>>

configVars == <<openai_client, gemini_model, consumer>>

requestVars ==
    <<pc, caller, doc, contract_text, parser_used, openai_resp, gemini_resp,
      obligations, api_used, processed, result, log, requests>>

uiVars == <<processing, extraction_results, ui_status, ui_message>>

pipeVars == <<configVars, requestVars, uiVars>>

partyVars == <<party_input, party_out>>

riskVars == <<risk_input, risk_done, risk_summary>>

postVars == <<post_input, post_done, post_out>>

fbVars == <<fb_result>>

unitVars == <<partyVars, riskVars, postVars, fbVars>>

vars == <<gateVars, valVars, unitVars, pipeVars>>

----------------------------------------------------------------------------
(* Bounds of the model *)

MaxWords == 21      \* words in a generated text
MaxWordLen == 3     \* characters per word of a generated text
MaxSep == 2         \* blanks between two words of a generated text
MaxPad == 1         \* blanks before and after a generated text
MaxElems == 2       \* elements of the JSON array in a provider response
MaxCallElems == 1   \* elements of the JSON array a provider call returns
MaxRisks == 4       \* obligations of a list handed to the risk summary

----------------------------------------------------------------------------
(* Python str primitives, on sequences of characters *)

WS == {" ", "\t", "\n"}

RECURSIVE SkipWs(_, _)
SkipWs(s, i) == IF i <= Len(s) /\ s[i] \in WS THEN SkipWs(s, i + 1) ELSE i

RECURSIVE SkipNonWs(_, _)
SkipNonWs(s, i) == IF i <= Len(s) /\ s[i] \notin WS THEN SkipNonWs(s, i + 1) ELSE i

RECURSIVE SkipWsBack(_, _)
SkipWsBack(s, i) == IF i >= 1 /\ s[i] \in WS THEN SkipWsBack(s, i - 1) ELSE i

\* str.strip()
Strip(s) == SubSeq(s, SkipWs(s, 1), SkipWsBack(s, Len(s)))

RECURSIVE SplitFrom(_, _)
SplitFrom(s, i) ==
    LET b == SkipWs(s, i)
        e == SkipNonWs(s, b)
    IN  IF b > Len(s) THEN <<>> ELSE <<SubSeq(s, b, e - 1)>> \o SplitFrom(s, e)

\* str.split() without arguments
Split(s) == SplitFrom(s, 1)

RECURSIVE Join(_, _)
Join(words, sep) ==
    IF words = <<>> THEN <<>>
    ELSE IF Len(words) = 1 THEN words[1]
    ELSE words[1] \o sep \o Join(Tail(words), sep)

Blanks(n) == [i \in 1..n |-> " "]

Word(n) == [i \in 1..n |-> "a"]

\* a text of n words of w characters, sep blanks apart, padded with blanks
MkText(lead, n, w, sep, trail) ==
    Blanks(lead) \o Join([i \in 1..n |-> Word(w)], Blanks(sep)) \o Blanks(trail)

NonWsCount(s) == Cardinality({i \in 1..Len(s) : s[i] \notin WS})

----------------------------------------------------------------------------
(* validators.py: the input validity gate *)

MinTextLen == 50
MinWords == 20

validate_contract_text_always(text) == TRUE

validate_contract_text_nowords(text) ==
    IF text = <<>> \/ Len(Strip(text)) < MinTextLen THEN FALSE ELSE TRUE

validate_contract_text(text) ==
    IF text = <<>> \/ Len(Strip(text)) < MinTextLen THEN FALSE
    ELSE IF Len(Split(text)) < MinWords THEN FALSE
    ELSE TRUE

----------------------------------------------------------------------------
(* Characters and strings that occur in provider responses *)

Q == "\""
BSL == "\\"
BQ == "BQ"
Digits == {"0", "1", "2", "3", "4", "5", "6", "7", "8", "9"}

K_obligation == <<"o", "b", "l", "i", "g", "a", "t", "i", "o", "n">>
K_responsibleParty == <<"r", "e", "s", "p", "o", "n", "s", "i", "b", "l", "e", "P", "a", "r", "t", "y">>
K_dueDate == <<"d", "u", "e", "D", "a", "t", "e">>
K_riskLevel == <<"r", "i", "s", "k", "L", "e", "v", "e", "l">>
K_summary == <<"s", "u", "m", "m", "a", "r", "y">>
K_obligations == <<"o", "b", "l", "i", "g", "a", "t", "i", "o", "n", "s">>
S_Low == <<"L", "o", "w">>
S_Medium == <<"M", "e", "d", "i", "u", "m">>
S_High == <<"H", "i", "g", "h">>
S_low == <<"l", "o", "w">>
S_HIGH == <<"H", "I", "G", "H">>
S_ongoing == <<"o", "n", "g", "o", "i", "n", "g">>
S_Ongoing == <<"O", "n", "g", "o", "i", "n", "g">>
S_ONGOING == <<"O", "N", "G", "O", "I", "N", "G">>
S_date == <<"2", "0", "2", "5", "-", "0", "1", "-", "3", "1">>
S_soon == <<"s", "o", "o", "n">>
S_slashDate == <<"1", "/", "2", "/", "2", "0", "2", "5">>
S_dashDate == <<"0", "1", "-", "0", "2", "-", "2", "0", "2", "5">>
S_ongoingBlank == <<"o", "n", "g", "o", "i", "n", "g", " ">>
S_onGoing == <<"o", "n", " ", "g", "o", "i", "n", "g">>
S_ongoingDot == <<"O", "n", "g", "o", "i", "n", "g", ".">>
S_json == <<"j", "s", "o", "n">>
S_null == <<"n", "u", "l", "l">>
S_Pay == <<"P", "a", "y", " ", "f", "e", "e">>
S_PayQuoted == <<"P", "a", "y", " ", Q, "n", "e", "t", Q, " ", " ", "f", "e", "e">>
S_UseFence == <<"M", "a", "r", "k", " ", BQ, BQ, BQ, "j", "s", "o", "n", " ", "x">>
S_vendor == <<"v", "e", "n", "d", "o", "r">>
S_PartyAUpper == <<" ", "P", "A", "R", "T", "Y", " ", "A", " ">>
S_Acme == <<"A", "c", "m", "e">>
S_Due == <<"F", "e", "e", " ", "d", "u", "e", ".">>
S_DueNoDot == <<"F", "e", "e", " ", " ", "d", "u", "e">>
S_blank == <<" ">>
S_Here == <<"H", "e", "r", "e", " ", "y", "o", "u", " ", "g", "o", ":", " ">>
S_OnlyOpen == <<" ", "[", " ", "x">>
S_OnlyClose == <<"x", " ", "]", "\n">>
S_Reversed == <<"]", " ", "o", "o", "p", "s", " ", "[">>
S_Sorry == <<"I", " ", "c", "a", "n", "n", "o", "t", " ", "h", "e", "l", "p">>

UpperLetters ==
    <<"A", "B", "C", "D", "E", "F", "G", "H", "I", "J", "K", "L", "M",
      "N", "O", "P", "Q", "R", "S", "T", "U", "V", "W", "X", "Y", "Z">>

LowerLetters ==
    <<"a", "b", "c", "d", "e", "f", "g", "h", "i", "j", "k", "l", "m",
      "n", "o", "p", "q", "r", "s", "t", "u", "v", "w", "x", "y", "z">>

LowerChar(c) ==
    IF \E i \in 1..26 : UpperLetters[i] = c
    THEN LowerLetters[CHOOSE i \in 1..26 : UpperLetters[i] = c]
    ELSE c

\* str.lower()
Lower(s) == [i \in 1..Len(s) |-> LowerChar(s[i])]

UpperChar(c) ==
    IF \E i \in 1..26 : LowerLetters[i] = c
    THEN UpperLetters[CHOOSE i \in 1..26 : LowerLetters[i] = c]
    ELSE c

\* the spellings of a lower-case word in every mix of letter cases
CaseVariants(s) ==
    {[i \in 1..Len(s) |-> IF i \in U THEN UpperChar(s[i]) ELSE s[i]] :
        U \in SUBSET (1..Len(s))}

Min(S) == CHOOSE x \in S : \A y \in S : x <= y

Max(S) == CHOOSE x \in S : \A y \in S : x >= y

StartsWithAt(s, i, p) ==
    i + Len(p) - 1 <= Len(s) /\ SubSeq(s, i, i + Len(p) - 1) = p

\* str.find(c) and str.rfind(c) for a one-character c; 0 is Python's -1 and
\* position i is Python's index i - 1
Find(s, c) ==
    LET hits == {i \in 1..Len(s) : s[i] = c}
    IN  IF hits = {} THEN 0 ELSE Min(hits)

RFind(s, c) ==
    LET hits == {i \in 1..Len(s) : s[i] = c}
    IN  IF hits = {} THEN 0 ELSE Max(hits)

\* re.sub(pat + r'\s*', '', s) from position i on, for a literal pat
RECURSIVE SubLiteralWs(_, _, _)
SubLiteralWs(s, i, pat) ==
    LET hits == {j \in i..Len(s) : StartsWithAt(s, j, pat)}
    IN  IF hits = {} THEN SubSeq(s, i, Len(s))
        ELSE SubSeq(s, i, Min(hits) - 1)
             \o SubLiteralWs(s, SkipWs(s, Min(hits) + Len(pat)), pat)

----------------------------------------------------------------------------
(* json.loads, for the JSON this model writes: arrays, objects, strings    *)
(* with the escapes \" \\ \/ \n \t, null and unsigned integers.  A value   *)
(* is a record tagged by t.                                                *)

JStr(s) == [t |-> "str", s |-> s]
JNull == [t |-> "null"]
JNum(d) == [t |-> "num", d |-> d]
JArr(items) == [t |-> "arr", items |-> items]
JObj(m) == [t |-> "obj", m |-> m]

Bad == [ok |-> FALSE, v |-> JNull, next |-> 0]
Good(v, n) == [ok |-> TRUE, v |-> v, next |-> n]

RECURSIVE SkipDigits(_, _)
SkipDigits(s, i) == IF i <= Len(s) /\ s[i] \in Digits THEN SkipDigits(s, i + 1) ELSE i

\* the characters of a string literal whose opening quote is before i
RECURSIVE ParseString(_, _, _)
ParseString(s, i, acc) ==
    IF i > Len(s) THEN Bad
    ELSE IF s[i] = Q THEN Good(JStr(acc), i + 1)
    ELSE IF s[i] = BSL THEN
        IF i + 1 > Len(s) THEN Bad
        ELSE IF s[i + 1] \in {Q, BSL, "/"} THEN ParseString(s, i + 2, Append(acc, s[i + 1]))
        ELSE IF s[i + 1] = "n" THEN ParseString(s, i + 2, Append(acc, "\n"))
        ELSE IF s[i + 1] = "t" THEN ParseString(s, i + 2, Append(acc, "\t"))
        ELSE Bad
    ELSE IF s[i] \in {"\n", "\t"} THEN Bad
    ELSE ParseString(s, i + 1, Append(acc, s[i]))

RECURSIVE ParseValue(_, _)
RECURSIVE ParseItems(_, _, _)
RECURSIVE ParseMembers(_, _, _)

\* the items of an array, the first of them starting at i
ParseItems(s, i, acc) ==
    LET r == ParseValue(s, i)
        j == SkipWs(s, r.next)
    IN  IF ~r.ok THEN Bad
        ELSE IF j > Len(s) THEN Bad
        ELSE IF s[j] = "," THEN ParseItems(s, SkipWs(s, j + 1), Append(acc, r.v))
        ELSE IF s[j] = "]" THEN Good(JArr(Append(acc, r.v)), j + 1)
        ELSE Bad

\* the members of an object, the first key's opening quote expected at i;
\* a repeated key keeps its last value
ParseMembers(s, i, acc) ==
    IF i > Len(s) \/ s[i] # Q THEN Bad
    ELSE
        LET k == ParseString(s, i + 1, <<>>)
            c == SkipWs(s, k.next)
            r == ParseValue(s, SkipWs(s, c + 1))
            j == SkipWs(s, r.next)
            m == [x \in DOMAIN acc \cup {k.v.s} |-> IF x = k.v.s THEN r.v ELSE acc[x]]
        IN  IF ~k.ok THEN Bad
            ELSE IF c > Len(s) \/ s[c] # ":" THEN Bad
            ELSE IF ~r.ok THEN Bad
            ELSE IF j > Len(s) THEN Bad
            ELSE IF s[j] = "," THEN ParseMembers(s, SkipWs(s, j + 1), m)
            ELSE IF s[j] = "}" THEN Good(JObj(m), j + 1)
            ELSE Bad

ParseValue(s, i) ==
    IF i > Len(s) THEN Bad
    ELSE IF s[i] = "[" THEN
        LET j == SkipWs(s, i + 1)
        IN  IF j <= Len(s) /\ s[j] = "]" THEN Good(JArr(<<>>), j + 1)
            ELSE ParseItems(s, j, <<>>)
    ELSE IF s[i] = "{" THEN
        LET j == SkipWs(s, i + 1)
        IN  IF j <= Len(s) /\ s[j] = "}" THEN Good(JObj(<<>>), j + 1)
            ELSE ParseMembers(s, j, <<>>)
    ELSE IF s[i] = Q THEN ParseString(s, i + 1, <<>>)
    ELSE IF StartsWithAt(s, i, S_null) THEN Good(JNull, i + 4)
    ELSE IF s[i] \in Digits THEN
        Good(JNum(SubSeq(s, i, SkipDigits(s, i) - 1)), SkipDigits(s, i))
    ELSE Bad

\* json.loads(s); ok = FALSE is json.JSONDecodeError
json_loads(s) ==
    LET r == ParseValue(s, SkipWs(s, 1))
    IN  IF r.ok /\ SkipWs(s, r.next) > Len(s) THEN r ELSE Bad

----------------------------------------------------------------------------
(* validators.py: the response validator *)

Fence == <<BQ, BQ, BQ>>
FenceJson == <<BQ, BQ, BQ, "j", "s", "o", "n">>

clean_json_response_noslice(response_text) ==
    Strip(SubLiteralWs(SubLiteralWs(response_text, 1, FenceJson), 1, Fence))

clean_json_response(response_text) ==
    LET t1 == SubLiteralWs(response_text, 1, FenceJson)
        t2 == SubLiteralWs(t1, 1, Fence)
        t3 == Strip(t2)
        start_idx == Find(t3, "[")
        end_idx == RFind(t3, "]")
    IN  IF start_idx # 0 /\ end_idx # 0 THEN SubSeq(t3, start_idx, end_idx) ELSE t3

RequiredFields ==
    {K_obligation, K_responsibleParty, K_dueDate, K_riskLevel, K_summary}

valid_levels == {S_Low, S_Medium, S_High}

validate_risk_level_any(v) == TRUE

validate_risk_level(v) == v \in valid_levels

validate_due_date_exact(v) == IF v = S_ongoing THEN S_Ongoing ELSE v

\* the three date patterns of lines 33-41 return v, as line 44 does
validate_due_date(v) == IF Lower(v) = S_ongoing THEN S_Ongoing ELSE v

\* Obligation(**obligation).dict(); ok = FALSE is the exception the
\* constructor raises (TypeError for a non-mapping, ValidationError else)
Obligation(e) ==
    IF e.t # "obj" THEN [ok |-> FALSE]
    ELSE IF \E k \in RequiredFields : k \notin DOMAIN e.m THEN [ok |-> FALSE]
    ELSE IF \E k \in RequiredFields : e.m[k].t # "str" THEN [ok |-> FALSE]
    ELSE IF ~validate_risk_level(e.m[K_riskLevel].s) THEN [ok |-> FALSE]
    ELSE [ok |-> TRUE,
          rec |-> [obligation |-> e.m[K_obligation].s,
                   responsibleParty |-> e.m[K_responsibleParty].s,
                   dueDate |-> validate_due_date(e.m[K_dueDate].s),
                   riskLevel |-> e.m[K_riskLevel].s,
                   summary |-> e.m[K_summary].s]]

\* the loop of validate_json_response over the parsed array
RECURSIVE ValidateEach(_)
ValidateEach(items) ==
    IF items = <<>> THEN <<>>
    ELSE (IF Obligation(Head(items)).ok THEN <<Obligation(Head(items)).rec>> ELSE <<>>)
         \o ValidateEach(Tail(items))

\* Python's None, and a returned list
Absent == [absent |-> TRUE, items |-> <<>>]
Present(items) == [absent |-> FALSE, items |-> items]

\* the argument is [kind |-> "text", text |-> ...] for a str and
\* [kind |-> "none", ...] for None, on which re.sub raises TypeError
validate_json_response_keep_empty(response) ==
    IF response.kind # "text" THEN Absent
    ELSE
        LET parsed == json_loads(clean_json_response(response.text))
        IN  IF ~parsed.ok THEN Absent
            ELSE IF parsed.v.t # "arr" THEN Absent
            ELSE Present(ValidateEach(parsed.v.items))

validate_json_response_unguarded(response) ==
    IF response.kind # "text" THEN [absent |-> FALSE, items |-> <<>>, raised |-> TRUE]
    ELSE
        LET parsed == json_loads(clean_json_response(response.text))
        IN  IF ~parsed.ok THEN Absent
            ELSE IF parsed.v.t # "arr" THEN Absent
            ELSE IF ValidateEach(parsed.v.items) # <<>>
                 THEN Present(ValidateEach(parsed.v.items))
                 ELSE Absent

validate_json_response(response) ==
    IF response.kind # "text" THEN Absent
    ELSE
        LET parsed == json_loads(clean_json_response(response.text))
        IN  IF ~parsed.ok THEN Absent
            ELSE IF parsed.v.t # "arr" THEN Absent
            ELSE IF ValidateEach(parsed.v.items) # <<>>
                 THEN Present(ValidateEach(parsed.v.items))
                 ELSE Absent

----------------------------------------------------------------------------
(* What a provider answers.  A response is described by its kind, the      *)
(* elements of its array and the markup around the array; ResponseOf       *)
(* writes the response text                                                *)

RECURSIVE Escape(_)
Escape(s) ==
    IF s = <<>> THEN <<>>
    ELSE (IF Head(s) \in {Q, BSL} THEN <<BSL, Head(s)>>
          ELSE IF Head(s) = "\n" THEN <<BSL, "n">>
          ELSE IF Head(s) = "\t" THEN <<BSL, "t">>
          ELSE <<Head(s)>>) \o Escape(Tail(s))

RenderString(s) == <<Q>> \o Escape(s) \o <<Q>>

\* members is a sequence of <<key, text of the value>>
RenderObject(members) ==
    <<"{">>
    \o Join([i \in 1..Len(members) |->
                RenderString(members[i][1]) \o <<":", " ">> \o members[i][2]],
            <<",", " ">>)
    \o <<"}">>

RenderArray(texts) == <<"[">> \o Join(texts, <<",", " ">>) \o <<"]">>

ObjText(o, p, d, r, s) ==
    RenderObject(<< <<K_obligation, o>>, <<K_responsibleParty, p>>,
                    <<K_dueDate, d>>, <<K_riskLevel, r>>, <<K_summary, s>> >>)

ElemNames ==
    {"high_ongoing", "low_dated", "medium_fence", "blank_summary",
     "blank_obligation", "bad_risk",
     "upper_risk", "no_summary", "null_party", "number"}

ElemText(name) ==
    CASE name = "high_ongoing" ->
            ObjText(RenderString(S_Pay), RenderString(S_vendor),
                    RenderString(S_ONGOING), RenderString(S_High), RenderString(S_Due))
      [] name = "low_dated" ->
            ObjText(RenderString(S_PayQuoted), RenderString(S_PartyAUpper),
                    RenderString(S_date), RenderString(S_Low), RenderString(S_DueNoDot))
      [] name = "medium_fence" ->
            ObjText(RenderString(S_UseFence), RenderString(S_Acme),
                    RenderString(S_soon), RenderString(S_Medium), RenderString(S_Due))
      [] name = "blank_summary" ->
            ObjText(RenderString(S_Pay), RenderString(S_Acme),
                    RenderString(S_soon), RenderString(S_Medium), RenderString(S_blank))
      [] name = "blank_obligation" ->
            ObjText(RenderString(S_blank), RenderString(S_Acme),
                    RenderString(S_soon), RenderString(S_Low), RenderString(S_Due))
      [] name = "bad_risk" ->
            ObjText(RenderString(S_Pay), RenderString(S_vendor),
                    RenderString(S_date), RenderString(S_low), RenderString(S_Due))
      [] name = "upper_risk" ->
            ObjText(RenderString(S_Pay), RenderString(S_vendor),
                    RenderString(S_date), RenderString(S_HIGH), RenderString(S_Due))
      [] name = "no_summary" ->
            RenderObject(<< <<K_obligation, RenderString(S_Pay)>>,
                            <<K_responsibleParty, RenderString(S_vendor)>>,
                            <<K_dueDate, RenderString(S_date)>>,
                            <<K_riskLevel, RenderString(S_High)>> >>)
      [] name = "null_party" ->
            ObjText(RenderString(S_Pay), S_null,
                    RenderString(S_date), RenderString(S_High), RenderString(S_Due))
      [] name = "number" -> <<"5">>

\* the elements that have the five fields as strings and a riskLevel among
\* Low, Medium, High, and the record each of them stands for
ValidElems ==
    {"high_ongoing", "low_dated", "medium_fence", "blank_summary", "blank_obligation"}

ElemRecord(name) ==
    CASE name = "high_ongoing" ->
            [obligation |-> S_Pay, responsibleParty |-> S_vendor,
             dueDate |-> S_Ongoing, riskLevel |-> S_High, summary |-> S_Due]
      [] name = "low_dated" ->
            [obligation |-> S_PayQuoted, responsibleParty |-> S_PartyAUpper,
             dueDate |-> S_date, riskLevel |-> S_Low, summary |-> S_DueNoDot]
      [] name = "medium_fence" ->
            [obligation |-> S_UseFence, responsibleParty |-> S_Acme,
             dueDate |-> S_soon, riskLevel |-> S_Medium, summary |-> S_Due]
      [] name = "blank_summary" ->
            [obligation |-> S_Pay, responsibleParty |-> S_Acme,
             dueDate |-> S_soon, riskLevel |-> S_Medium, summary |-> S_blank]
      [] name = "blank_obligation" ->
            [obligation |-> S_blank, responsibleParty |-> S_Acme,
             dueDate |-> S_soon, riskLevel |-> S_Low, summary |-> S_Due]

RECURSIVE ValidRecords(_)
ValidRecords(elems) ==
    IF elems = <<>> THEN <<>>
    ELSE (IF Head(elems) \in ValidElems THEN <<ElemRecord(Head(elems))>> ELSE <<>>)
         \o ValidRecords(Tail(elems))

SeqsUpTo(S, n) == UNION {[1..k -> S] : k \in 0..n}

Wraps == {"bare", "fenced", "prose"}

Descr(kind, wrap, elems) == [kind |-> kind, wrap |-> wrap, elems |-> elems]

ArrayText(d) == RenderArray([i \in 1..Len(d.elems) |-> ElemText(d.elems[i])])

TextResponse(text) == [kind |-> "text", text |-> text]

ResponseOf(d) ==
    CASE d.kind = "none" -> [kind |-> "none", text |-> <<>>]
      [] d.kind = "garbage" -> TextResponse(S_Sorry)
      [] d.kind = "object" -> TextResponse(ElemText("high_ongoing"))
      [] d.kind = "wrapped" ->
            TextResponse(RenderObject(<< <<K_obligations, ArrayText(d)>> >>))
      [] d.kind = "array" /\ d.wrap = "bare" -> TextResponse(ArrayText(d))
      [] d.kind = "array" /\ d.wrap = "fenced" ->
            TextResponse(FenceJson \o <<"\n">> \o ArrayText(d) \o <<"\n">> \o Fence)
      [] d.kind = "array" /\ d.wrap = "prose" ->
            TextResponse(S_Here \o ArrayText(d))
      [] d.kind = "only_open" -> TextResponse(S_OnlyOpen)
      [] d.kind = "only_close" -> TextResponse(S_OnlyClose)
      [] d.kind = "reversed" -> TextResponse(S_Reversed)
      [] d.kind = "due" ->
            TextResponse(RenderArray(<<ObjText(RenderString(S_Pay), RenderString(S_vendor),
                                               RenderString(d.elems[1]), RenderString(S_High),
                                               RenderString(S_Due))>>))

NoResponse == Descr("nocall", "bare", <<>>)

----------------------------------------------------------------------------
(* validators.py: party names *)

APOS == "'"

party_mappings ==
    << << <<"p", "a", "r", "t", "y", " ", "a">>,
          <<"P", "a", "r", "t", "y", " ", "A">> >>,
       << <<"p", "a", "r", "t", "y", " ", "b">>,
          <<"P", "a", "r", "t", "y", " ", "B">> >>,
       << <<"c", "o", "m", "p", "a", "n", "y">>,
          <<"C", "o", "m", "p", "a", "n", "y">> >>,
       << <<"v", "e", "n", "d", "o", "r">>,
          <<"V", "e", "n", "d", "o", "r">> >>,
       << <<"c", "l", "i", "e", "n", "t">>,
          <<"C", "l", "i", "e", "n", "t">> >>,
       << <<"c", "u", "s", "t", "o", "m", "e", "r">>,
          <<"C", "u", "s", "t", "o", "m", "e", "r">> >>,
       << <<"s", "u", "p", "p", "l", "i", "e", "r">>,
          <<"S", "u", "p", "p", "l", "i", "e", "r">> >>,
       << <<"c", "o", "n", "t", "r", "a", "c", "t", "o", "r">>,
          <<"C", "o", "n", "t", "r", "a", "c", "t", "o", "r">> >>,
       << <<"s", "u", "b", "c", "o", "n", "t", "r", "a", "c", "t", "o", "r">>,
          <<"S", "u", "b", "c", "o", "n", "t", "r", "a", "c", "t", "o", "r">> >> >>

sanitize_party_name_exact(party_name) ==
    LET normalized == Strip(party_name)
        hits == {i \in 1..Len(party_mappings) : party_mappings[i][1] = normalized}
    IN  IF hits = {} THEN Strip(party_name)
        ELSE party_mappings[CHOOSE i \in hits : TRUE][2]

sanitize_party_name(party_name) ==
    LET normalized == Lower(Strip(party_name))
        hits == {i \in 1..Len(party_mappings) : party_mappings[i][1] = normalized}
    IN  IF hits = {} THEN Strip(party_name)
        ELSE party_mappings[CHOOSE i \in hits : TRUE][2]

----------------------------------------------------------------------------
(* obligation_extractor.py: post-processing and the risk summary *)

\* str.replace(pat, rep) from position i on
RECURSIVE ReplaceFrom(_, _, _, _)
ReplaceFrom(s, i, pat, rep) ==
    LET hits == {j \in i..Len(s) : StartsWithAt(s, j, pat)}
    IN  IF hits = {} THEN SubSeq(s, i, Len(s))
        ELSE SubSeq(s, i, Min(hits) - 1) \o rep
             \o ReplaceFrom(s, Min(hits) + Len(pat), pat, rep)

Replace(s, pat, rep) == ReplaceFrom(s, 1, pat, rep)

EndsWith(s, c) == s # <<>> /\ s[Len(s)] = c

\* the string between the first and the second triple quote of line 151
OddQuotePattern ==
    <<",", " ", Q, APOS, Q, ")", ".", "r", "e", "p", "l", "a", "c", "e", "(">>

_clean_obligation_text(text) ==
    IF text = <<>> THEN <<>>
    ELSE
        LET t1 == Join(Split(text), <<" ">>)
            t2 == Replace(Replace(Replace(t1, <<Q>>, <<>>), <<Q>>, <<>>), <<Q>>, <<>>)
            t3 == Replace(t2, OddQuotePattern, <<APOS>>)
        IN  Strip(t3)

_clean_summary_text(text) ==
    IF text = <<>> THEN <<>>
    ELSE
        LET t1 == Join(Split(text), <<" ">>)
            t2 == IF t1 # <<>> /\ ~EndsWith(t1, ".") THEN t1 \o <<".">> ELSE t1
        IN  Strip(t2)

\* the confidence placeholder 0.85, in hundredths
Confidence == 85

PostProcessOne_Drop(o) == [ok |-> FALSE]

\* the body of the loop of _post_process_obligations; ok = FALSE is the
\* KeyError of a missing key, caught at line 127
PostProcessOne(o) ==
    IF ~({"responsibleParty", "obligation", "summary"} \subseteq DOMAIN o)
    THEN [ok |-> FALSE]
    ELSE [ok |-> TRUE,
          rec |-> [k \in DOMAIN o \cup {"confidence"} |->
                      IF k = "responsibleParty" THEN sanitize_party_name(o[k])
                      ELSE IF k = "obligation" THEN _clean_obligation_text(o[k])
                      ELSE IF k = "summary" THEN _clean_summary_text(o[k])
                      ELSE IF k = "confidence" THEN Confidence
                      ELSE o[k]]]

_post_process_obligations_all_or_nothing(obls) ==
    IF \E i \in DOMAIN obls : ~PostProcessOne(obls[i]).ok THEN <<>>
    ELSE [i \in DOMAIN obls |-> PostProcessOne(obls[i]).rec]

RECURSIVE _post_process_obligations(_)
_post_process_obligations(obls) ==
    IF obls = <<>> THEN <<>>
    ELSE (IF PostProcessOne(Head(obls)).ok THEN <<PostProcessOne(Head(obls)).rec>> ELSE <<>>)
         \o _post_process_obligations(Tail(obls))

RiskOf(o) == IF "riskLevel" \in DOMAIN o THEN o.riskLevel ELSE S_Medium

RiskCount(obls, level) == Cardinality({i \in 1..Len(obls) : RiskOf(obls[i]) = level})

Percentage_NoScale(count, total) ==
    IF total > 0 THEN [num |-> count, den |-> total] ELSE [num |-> 0, den |-> 1]

\* count / total * 100 as the fraction num/den; 0 when there is no obligation
Percentage(count, total) ==
    IF total > 0 THEN [num |-> count * 100, den |-> total] ELSE [num |-> 0, den |-> 1]

_generate_risk_summary(obls) ==
    [total_obligations |-> Len(obls),
     risk_breakdown |-> [Low |-> RiskCount(obls, S_Low),
                         Medium |-> RiskCount(obls, S_Medium),
                         High |-> RiskCount(obls, S_High)],
     high_risk_percentage |-> Percentage(RiskCount(obls, S_High), Len(obls)),
     medium_risk_percentage |-> Percentage(RiskCount(obls, S_Medium), Len(obls)),
     low_risk_percentage |-> Percentage(RiskCount(obls, S_Low), Len(obls))]

----------------------------------------------------------------------------
(* Documents.  A text file is its bytes; a PDF is what each of the two     *)
(* extraction strategies makes of it (an exception or a cleaned text)      *)

FT_pdf == <<"p", "d", "f">>
FT_PDF == <<"P", "D", "F">>
FT_txt == <<"t", "x", "t">>
FT_docx == <<"d", "o", "c", "x">>
S_hello == <<"h", "e", "l", "l", "o">>

\* a byte that is not valid UTF-8
XFF == "xFF"

\* bytes.decode('utf-8', errors='ignore')
Decode(content) == SelectSeq(content, LAMBDA b : b # XFF)

Raises == [raise |-> TRUE, text |-> <<>>]
Yields(text) == [raise |-> FALSE, text |-> text]

ShortText == MkText(0, 20, 1, 1, 0)
WordyText == MkText(0, 20, 2, 1, 0)
FewWordsText == MkText(1, 19, 3, 1, 1)
LongText == MkText(0, 21, 4, 1, 0)

\* two-word texts of 100, 101 and 103 characters
Text100 == MkText(0, 2, 49, 2, 0)
LongFewText == MkText(0, 2, 50, 1, 0)
DenseText == MkText(0, 2, 51, 1, 0)

TxtDoc(content) ==
    [file_type |-> FT_txt, content |-> content, pymupdf |-> Raises, pdfminer |-> Raises]

PdfDoc(file_type, primary, secondary) ==
    [file_type |-> file_type, content |-> <<>>, pymupdf |-> primary, pdfminer |-> secondary]

\* a request names its document; DocOf is the document
DocNames ==
    {"txt_hello", "txt_wordy", "txt_few_words", "docx",
     "PDF_long_long", "pdf_long_raise", "pdf_raise_long", "pdf_short_long",
     "pdf_100_dense",
     "pdf_short_short", "pdf_short_raise", "pdf_raise_short", "pdf_raise_raise"}

DocOf(name) ==
    CASE name = "txt_hello" -> TxtDoc(S_hello)
      [] name = "txt_wordy" -> TxtDoc(<<XFF>> \o WordyText)
      [] name = "txt_few_words" -> TxtDoc(FewWordsText)
      [] name = "docx" -> PdfDoc(FT_docx, Raises, Raises)
      [] name = "PDF_long_long" -> PdfDoc(FT_PDF, Yields(LongFewText), Yields(LongFewText))
      [] name = "pdf_long_raise" -> PdfDoc(FT_pdf, Yields(LongFewText), Raises)
      [] name = "pdf_raise_long" -> PdfDoc(FT_pdf, Raises, Yields(LongFewText))
      [] name = "pdf_100_dense" -> PdfDoc(FT_pdf, Yields(Text100), Yields(DenseText))
      [] name = "pdf_short_long" -> PdfDoc(FT_pdf, Yields(ShortText), Yields(LongText))
      [] name = "pdf_short_short" -> PdfDoc(FT_pdf, Yields(ShortText), Yields(ShortText))
      [] name = "pdf_short_raise" -> PdfDoc(FT_pdf, Yields(ShortText), Raises)
      [] name = "pdf_raise_short" -> PdfDoc(FT_pdf, Raises, Yields(ShortText))
      [] name = "pdf_raise_raise" -> PdfDoc(FT_pdf, Raises, Raises)

NoDoc == "none"

----------------------------------------------------------------------------
(* pdf_parser.py *)

PdfMinChars == 100

Usable_NonWs(outcome) ==
    ~outcome.raise /\ outcome.text # <<>> /\ NonWsCount(outcome.text) > PdfMinChars

\* the test of lines 35 and 43
Usable(outcome) ==
    ~outcome.raise /\ outcome.text # <<>> /\ Len(Strip(outcome.text)) > PdfMinChars

Err(msg, arg) == [msg |-> msg, arg |-> arg]
NoErr == Err("", <<>>)

Returned(text, parser) == [raise |-> FALSE, text |-> text, parser |-> parser, err |-> NoErr]
Raised(err) == [raise |-> TRUE, text |-> <<>>, parser |-> "", err |-> err]

\* PDFParser.extract_text; calls lists the strategies it ran
PDFParser_extract_text(d) ==
    IF Usable(d.pymupdf)
    THEN [out |-> Returned(d.pymupdf.text, "PyMuPDF"), calls |-> <<"pymupdf">>]
    ELSE IF Usable(d.pdfminer)
    THEN [out |-> Returned(d.pdfminer.text, "pdfminer"), calls |-> <<"pymupdf", "pdfminer">>]
    ELSE [out |-> Raised(Err("Failed to extract text from PDF with both parsers", <<>>)),
          calls |-> <<"pymupdf", "pdfminer">>]

----------------------------------------------------------------------------
(* obligation_extractor.py: the orchestrator *)

_extract_text(d) ==
    IF Lower(d.file_type) = FT_pdf THEN PDFParser_extract_text(d)
    ELSE IF Lower(d.file_type) = FT_txt
    THEN [out |-> Returned(Decode(d.content), "text_decoder"), calls |-> <<>>]
    ELSE [out |-> Raised(Err("Unsupported file type: ", d.file_type)), calls |-> <<>>]

\* _extract_text of every document, computed once
ExtractedText == [name \in DocNames |-> _extract_text(DocOf(name))]

NoResult == [none |-> TRUE]

FailureEnvelope_Bare(err) == [success |-> FALSE, error |-> err]

FailureEnvelope_WithApi(err) ==
    [success |-> FALSE, error |-> err, obligations |-> <<>>, total_obligations |-> 0,
     api_used |-> ""]

\* the dictionary of lines 72-77
FailureEnvelope(err) ==
    [success |-> FALSE, error |-> err, obligations |-> <<>>, total_obligations |-> 0]

SuccessEnvelope_NoCount(obls, api, parser, text) ==
    [success |-> TRUE,
     obligations |-> obls,
     total_obligations |-> 0,
     api_used |-> api,
     parser_used |-> parser,
     contract_length |-> Len(text),
     risk_summary |-> _generate_risk_summary(obls)]

\* the dictionary of lines 57-65
SuccessEnvelope(obls, api, parser, text) ==
    [success |-> TRUE,
     obligations |-> obls,
     total_obligations |-> Len(obls),
     api_used |-> api,
     parser_used |-> parser,
     contract_length |-> Len(text),
     risk_summary |-> _generate_risk_summary(obls)]

get_api_status_always ==
    [openai_available |-> openai_client,
     gemini_available |-> gemini_model,
     any_available |-> TRUE]

get_api_status ==
    [openai_available |-> openai_client,
     gemini_available |-> gemini_model,
     any_available |-> openai_client \/ gemini_model]

get_system_status_parser ==
    [apis_available |-> get_api_status,
     pdf_parser_available |-> TRUE,
     system_ready |-> TRUE]

get_system_status ==
    [apis_available |-> get_api_status,
     pdf_parser_available |-> TRUE,
     system_ready |-> get_api_status.any_available]

Fail_Unspecific(err) ==
    /\ result' = FailureEnvelope(Err("Processing failed", <<>>))
    /\ pc' = "returned"

\* the except clause of process_contract
Fail(err) ==
    /\ result' = FailureEnvelope(err)
    /\ pc' = "returned"

\* no request is in progress
Startable ==
    \/ pc = "idle"
    \/ pc = "returned" /\ caller = "direct"
    \/ pc = "ui_done"

\* a request starts with nothing left of the one before
Enter(d, who, at) ==
    /\ doc' = d
    /\ caller' = who
    /\ pc' = at
    /\ contract_text' = <<>>
    /\ parser_used' = ""
    /\ openai_resp' = NoResponse
    /\ gemini_resp' = NoResponse
    /\ obligations' = <<>>
    /\ api_used' = ""
    /\ processed' = <<>>
    /\ result' = NoResult
    /\ log' = <<>>
    /\ requests' = <<>>

\* a consumer other than the dashboard calls process_contract
DirectCall ==
    /\ consumer = "program"
    /\ Startable
    /\ \E d \in DocNames : Enter(d, "direct", "extract_text")
    /\ UNCHANGED <<configVars, processing, extraction_results, ui_status, ui_message>>
    /\ UNCHANGED <<gateVars, valVars, unitVars>>

\* process_contract, line 44
ExtractText ==
    /\ pc = "extract_text"
    /\ log' = log \o <<"extract_text">> \o ExtractedText[doc].calls
    /\ IF ExtractedText[doc].out.raise
       THEN /\ Fail(ExtractedText[doc].out.err)
            /\ UNCHANGED <<contract_text, parser_used>>
       ELSE /\ contract_text' = ExtractedText[doc].out.text
            /\ parser_used' = ExtractedText[doc].out.parser
            /\ pc' = "validate_text"
            /\ UNCHANGED result
    /\ UNCHANGED <<caller, doc, openai_resp, gemini_resp, obligations, api_used, processed>>
    /\ UNCHANGED <<configVars, uiVars, gateVars, valVars, unitVars>>
    /\ UNCHANGED requests

\* process_contract, lines 47-48
ValidateText ==
    /\ pc = "validate_text"
    /\ log' = Append(log, "validate_text")
    /\ IF ~validate_contract_text(contract_text)
       THEN Fail(Err("Contract text is too short or invalid", <<>>))
       ELSE pc' = "openai" /\ UNCHANGED result
    /\ UNCHANGED <<caller, doc, contract_text, parser_used, openai_resp, gemini_resp,
                   obligations, api_used, processed>>
    /\ UNCHANGED <<configVars, uiVars, gateVars, valVars, unitVars>>
    /\ UNCHANGED requests

----------------------------------------------------------------------------
(* The variables of a part of the model that is not running *)

ValIdle ==
    /\ val_input = NoResponse
    /\ val_done = FALSE
    /\ val_result = Absent
    /\ val_candidate = <<>>

GateIdle ==
    /\ gate_params = [lead |-> 0, n |-> 0, w |-> 1, sep |-> 1, trail |-> 0]
    /\ gate_text = <<>>
    /\ gate_done = FALSE
    /\ gate_ok = FALSE

PartyIdle ==
    /\ party_input = [lead |-> 0, core |-> <<>>, trail |-> 0]
    /\ party_out = <<>>

RiskIdle ==
    /\ risk_input = <<>>
    /\ risk_done = FALSE
    /\ risk_summary = _generate_risk_summary(<<>>)

PostIdle ==
    /\ post_input = <<>>
    /\ post_done = FALSE
    /\ post_out = <<>>

FallbackIdle == fb_result = Absent

UnitIdle == PartyIdle /\ RiskIdle /\ PostIdle /\ FallbackIdle

----------------------------------------------------------------------------
(* llm_service.py: the gateway, inside process_contract line 51 *)

PipeElems == {"low_dated", "blank_summary", "blank_obligation", "bad_risk"}

\* what a provider call can come to: an exception (transport, auth, rate
\* limit), a response without text, or a response text
PipeResponses ==
    {Descr(k, "bare", <<>>) : k \in {"raise", "none", "garbage"}}
    \cup {Descr("array", "bare", e) : e \in SeqsUpTo(PipeElems, MaxCallElems)}

\* settings.py; the temperature 0.1 is in tenths
OPENAI_MODEL == "gpt-4"
GEMINI_MODEL == "gemini-2.0-flash-exp"
MAX_TOKENS == 4000
TEMPERATURE == 1

\* the prompt is the template with the contract text in the place of
\* {contract_text}
Prompt(template, text) == [template |-> template, contract_text |-> text]

\* chat.completions.create of lines 97-105 and 167-175
OpenAIRequest(system, prompt) ==
    [provider |-> "openai", model |-> OPENAI_MODEL, system |-> system, prompt |-> prompt,
     max_tokens |-> MAX_TOKENS, temperature |-> TEMPERATURE]

\* generate_content of lines 135 and 186: the prompt and nothing else
GeminiRequest(prompt) ==
    [provider |-> "gemini", model |-> GEMINI_MODEL, prompt |-> prompt]

PrimaryOpenAIRequest(text) ==
    OpenAIRequest("You are a legal AI assistant specializing in contract analysis.",
                  Prompt("OBLIGATION_EXTRACTION_PROMPT", text))

PrimaryGeminiRequest(text) == GeminiRequest(Prompt("OBLIGATION_EXTRACTION_PROMPT", text))

Truthy_Inverted(v) == v.absent \/ v.items = <<>>

\* Python's truth value of an Optional[List]
Truthy(v) == ~v.absent /\ v.items # <<>>

\* _extract_with_openai and _extract_with_gemini for a call that did not
\* raise: the validator's result for the response, computed once
Validated == [r \in PipeResponses |-> validate_json_response(ResponseOf(r))]

ExtractWith(r) == Validated[r]

\* extract_obligations, lines 62-68
TryOpenAI ==
    /\ pc = "openai"
    /\ IF openai_client
       THEN \E r \in PipeResponses :
               /\ openai_resp' = r
               /\ log' = log \o <<"gateway", "openai_call">>
               /\ requests' = Append(requests, PrimaryOpenAIRequest(contract_text))
               /\ IF r.kind # "raise" /\ Truthy(ExtractWith(r))
                  THEN /\ obligations' = ExtractWith(r).items
                       /\ api_used' = "OpenAI GPT-4"
                       /\ pc' = "post_process"
                  ELSE /\ pc' = "gemini"
                       /\ UNCHANGED <<obligations, api_used>>
       ELSE /\ log' = Append(log, "gateway")
            /\ pc' = "gemini"
            /\ UNCHANGED <<openai_resp, obligations, api_used, requests>>
    /\ UNCHANGED <<caller, doc, contract_text, parser_used, gemini_resp, processed, result>>
    /\ UNCHANGED <<configVars, uiVars, gateVars, valVars, unitVars>>

\* extract_obligations, lines 71-80
TryGemini ==
    /\ pc = "gemini"
    /\ IF gemini_model
       THEN \E r \in PipeResponses :
               /\ gemini_resp' = r
               /\ log' = Append(log, "gemini_call")
               /\ requests' = Append(requests, PrimaryGeminiRequest(contract_text))
               /\ IF r.kind # "raise" /\ Truthy(ExtractWith(r))
                  THEN /\ obligations' = ExtractWith(r).items
                       /\ api_used' = "Google Gemini"
                       /\ pc' = "post_process"
                       /\ UNCHANGED result
                  ELSE /\ Fail(Err("All LLM APIs failed to extract obligations", <<>>))
                       /\ UNCHANGED <<obligations, api_used>>
       ELSE /\ Fail(Err("All LLM APIs failed to extract obligations", <<>>))
            /\ UNCHANGED <<gemini_resp, obligations, api_used, log, requests>>
    /\ UNCHANGED <<caller, doc, contract_text, parser_used, openai_resp, processed>>
    /\ UNCHANGED <<configVars, uiVars, gateVars, valVars, unitVars>>

\* process_contract, line 54
PostProcess ==
    /\ pc = "post_process"
    /\ processed' = _post_process_obligations(obligations)
    /\ log' = Append(log, "post_process")
    /\ pc' = "summarize"
    /\ UNCHANGED <<caller, doc, contract_text, parser_used, openai_resp, gemini_resp,
                   obligations, api_used, result>>
    /\ UNCHANGED <<configVars, uiVars, gateVars, valVars, unitVars>>
    /\ UNCHANGED requests

\* process_contract, lines 57-68
Summarize ==
    /\ pc = "summarize"
    /\ result' = SuccessEnvelope(processed, api_used, parser_used, contract_text)
    /\ log' = Append(log, "risk_summary")
    /\ pc' = "returned"
    /\ UNCHANGED <<caller, doc, contract_text, parser_used, openai_resp, gemini_resp,
                   obligations, api_used, processed>>
    /\ UNCHANGED <<configVars, uiVars, gateVars, valVars, unitVars>>
    /\ UNCHANGED requests

----------------------------------------------------------------------------
(* main.py: the handler of the Extract Obligations button *)

Message(msg, err) == [msg |-> msg, err |-> err]
NoMessage == Message("", NoErr)

\* process_contract, lines 147-170: up to the call of the orchestrator
UIProcessContract ==
    /\ consumer = "dashboard"
    /\ Startable
    /\ \E d \in DocNames :
        IF ~get_system_status.system_ready
        THEN /\ Enter(d, "ui", "ui_done")
             /\ ui_message' = Message("System not ready. Please check API keys.", NoErr)
             /\ ui_status' = ""
             /\ processing' = FALSE
        ELSE /\ Enter(d, "ui", "extract_text")
             /\ ui_message' = NoMessage
             /\ ui_status' = "Processing contract..."
             /\ processing' = TRUE
    /\ UNCHANGED <<configVars, extraction_results, gateVars, valVars, unitVars>>

UIFinish_StoreAlways ==
    /\ pc = "returned"
    /\ caller = "ui"
    /\ extraction_results' = result
    /\ processing' = FALSE
    /\ pc' = "ui_done"
    /\ UNCHANGED <<ui_status, ui_message>>
    /\ UNCHANGED <<configVars, caller, doc, contract_text, parser_used, openai_resp,
                   gemini_resp, obligations, api_used, processed, result, log, requests>>
    /\ UNCHANGED <<gateVars, valVars, unitVars>>

\* process_contract, lines 175-193: after the orchestrator has returned
UIFinish ==
    /\ pc = "returned"
    /\ caller = "ui"
    /\ IF "api_used" \notin DOMAIN result
       THEN /\ ui_message' = Message("Error processing contract: ", Err("'api_used'", <<>>))
            /\ UNCHANGED <<ui_status, extraction_results>>
       ELSE IF result.success
       THEN /\ ui_status' = "Processing complete!"
            /\ extraction_results' = result
            /\ UNCHANGED ui_message
       ELSE /\ ui_status' = "Processing failed"
            /\ ui_message' = Message("Error: ", result.error)
            /\ UNCHANGED extraction_results
    /\ processing' = FALSE
    /\ pc' = "ui_done"
    /\ UNCHANGED <<configVars, caller, doc, contract_text, parser_used, openai_resp,
                   gemini_resp, obligations, api_used, processed, result, log>>
    /\ UNCHANGED <<gateVars, valVars, unitVars>>
    /\ UNCHANGED requests

----------------------------------------------------------------------------
(* The program: the extractor is constructed, then requests are served one *)
(* at a time                                                               *)

PipeIdle ==
    /\ pc = "idle"
    /\ caller = ""
    /\ doc = NoDoc
    /\ contract_text = <<>>
    /\ parser_used = ""
    /\ openai_resp = NoResponse
    /\ gemini_resp = NoResponse
    /\ obligations = <<>>
    /\ api_used = ""
    /\ processed = <<>>
    /\ result = NoResult
    /\ log = <<>>
    /\ requests = <<>>
    /\ processing = FALSE
    /\ extraction_results = NoResult
    /\ ui_status = ""
    /\ ui_message = NoMessage

\* _initialize_clients: a provider is there when its key is set and its
\* client could be built
Init ==
    /\ openai_client \in BOOLEAN
    /\ gemini_model \in BOOLEAN
    /\ consumer \in {"dashboard", "program"}
    /\ PipeIdle
    /\ GateIdle
    /\ ValIdle
    /\ UnitIdle

Next ==
    \/ DirectCall
    \/ UIProcessContract
    \/ ExtractText
    \/ ValidateText
    \/ TryOpenAI
    \/ TryGemini
    \/ PostProcess
    \/ Summarize
    \/ UIFinish

Spec == Init /\ [][Next]_vars

----------------------------------------------------------------------------
(* The validator on its own: every response is handed to it once *)

\* dueDate texts: every spelling of "ongoing", the three date formats and
\* texts that are neither
DueDates ==
    CaseVariants(S_ongoing)
    \cup {S_date, S_slashDate, S_dashDate, S_soon, <<>>, S_ongoingBlank, S_onGoing,
          S_ongoingDot}

ValResponses ==
    {Descr(k, "bare", <<>>) :
        k \in {"none", "garbage", "object", "only_open", "only_close", "reversed"}}
    \cup {Descr("wrapped", "bare", e) : e \in SeqsUpTo(ElemNames, MaxElems)}
    \cup {Descr("array", w, e) : w \in Wraps, e \in SeqsUpTo(ElemNames, MaxElems)}
    \cup {Descr("due", "bare", <<d>>) : d \in DueDates}

ValInit ==
    /\ val_input \in ValResponses
    /\ val_done = FALSE
    /\ val_result = Absent
    /\ val_candidate = <<>>
    /\ GateIdle
    /\ UnitIdle
    /\ PipeIdle
    /\ openai_client = FALSE
    /\ gemini_model = FALSE
    /\ consumer = "program"

ValidateResponse ==
    /\ ~val_done
    /\ val_done' = TRUE
    /\ val_result' = validate_json_response(ResponseOf(val_input))
    /\ val_candidate' =
          IF ResponseOf(val_input).kind = "text"
          THEN clean_json_response(ResponseOf(val_input).text)
          ELSE <<>>
    /\ UNCHANGED <<val_input, gateVars, unitVars, pipeVars>>

ValNext == ValidateResponse

SpecValidator == ValInit /\ [][ValNext]_vars

----------------------------------------------------------------------------
(* The gate on its own: every generated text is handed to it once *)

GateParams ==
    [lead : 0..MaxPad, n : 0..MaxWords, w : 1..MaxWordLen,
     sep : 1..MaxSep, trail : 0..MaxPad]

GateInit ==
    /\ gate_params \in GateParams
    /\ gate_text = MkText(gate_params.lead, gate_params.n, gate_params.w,
                          gate_params.sep, gate_params.trail)
    /\ gate_done = FALSE
    /\ gate_ok = FALSE
    /\ ValIdle
    /\ UnitIdle
    /\ PipeIdle
    /\ openai_client = FALSE
    /\ gemini_model = FALSE
    /\ consumer = "program"

GateCheck ==
    /\ ~gate_done
    /\ gate_done' = TRUE
    /\ gate_ok' = validate_contract_text(gate_text)
    /\ UNCHANGED <<gate_params, gate_text, valVars, unitVars, pipeVars>>

GateNext == GateCheck

SpecGate == GateInit /\ [][GateNext]_vars

----------------------------------------------------------------------------
(* sanitize_party_name on its own: a name is handed to it, and what it     *)
(* returns is handed to it once more                                       *)

S_partyC == <<"p", "a", "r", "t", "y", " ", "c">>
S_partya == <<"p", "a", "r", "t", "y", "a">>
S_vendors == <<"V", "e", "n", "d", "o", "r", "s">>
S_theVendor == <<"t", "h", "e", " ", "v", "e", "n", "d", "o", "r">>
S_PartyWideA == <<"P", "a", "r", "t", "y", " ", " ", "A">>

Upper(s) == [i \in 1..Len(s) |-> UpperChar(s[i])]

\* names without whitespace at their ends: every spelling of "party a" and
\* of "vendor", every key in capitals, every canonical form, and names the
\* table does not have
PartyCores ==
    CaseVariants(party_mappings[1][1])
    \cup CaseVariants(party_mappings[4][1])
    \cup {Upper(party_mappings[i][1]) : i \in 1..Len(party_mappings)}
    \cup {party_mappings[i][2] : i \in 1..Len(party_mappings)}
    \cup {S_Acme, S_partyC, S_partya, S_vendors, S_theVendor, S_PartyWideA, <<>>}

PartyInputs == [lead : 0..MaxPad, core : PartyCores, trail : 0..MaxPad]

PartyText(p) == Blanks(p.lead) \o p.core \o Blanks(p.trail)

PartyInit ==
    /\ party_input \in PartyInputs
    /\ party_out = <<>>
    /\ RiskIdle
    /\ PostIdle
    /\ FallbackIdle
    /\ GateIdle
    /\ ValIdle
    /\ PipeIdle
    /\ openai_client = FALSE
    /\ gemini_model = FALSE
    /\ consumer = "program"

SanitizeParty ==
    /\ Len(party_out) < 2
    /\ party_out' =
          Append(party_out,
                 sanitize_party_name(IF party_out = <<>> THEN PartyText(party_input)
                                     ELSE party_out[Len(party_out)]))
    /\ UNCHANGED <<party_input, riskVars, postVars, fbVars, gateVars, valVars, pipeVars>>

PartyNext == SanitizeParty

SpecParty == PartyInit /\ [][PartyNext]_vars

----------------------------------------------------------------------------
(* _generate_risk_summary on its own: a final obligation list with the     *)
(* given risk levels is handed to it once                                  *)

RiskInputs == SeqsUpTo(valid_levels, MaxRisks)

FinalObligation(level) ==
    [obligation |-> S_Pay, responsibleParty |-> S_Acme, dueDate |-> S_Ongoing,
     riskLevel |-> level, summary |-> S_Due, confidence |-> Confidence]

RiskInit ==
    /\ risk_input \in RiskInputs
    /\ risk_done = FALSE
    /\ risk_summary = _generate_risk_summary(<<>>)
    /\ PartyIdle
    /\ PostIdle
    /\ FallbackIdle
    /\ GateIdle
    /\ ValIdle
    /\ PipeIdle
    /\ openai_client = FALSE
    /\ gemini_model = FALSE
    /\ consumer = "program"

SummarizeRisk ==
    /\ ~risk_done
    /\ risk_done' = TRUE
    /\ risk_summary' =
          _generate_risk_summary([i \in DOMAIN risk_input |-> FinalObligation(risk_input[i])])
    /\ UNCHANGED <<risk_input, partyVars, postVars, fbVars, gateVars, valVars, pipeVars>>

RiskNext == SummarizeRisk

SpecRisk == RiskInit /\ [][RiskNext]_vars

----------------------------------------------------------------------------
(* _post_process_obligations on its own: a list of records is handed to it *)
(* once.  The curly quotes are the characters named LDQ, RDQ, LSQ and RSQ  *)

LDQ == "LDQ"
RDQ == "RDQ"
LSQ == "LSQ"
RSQ == "RSQ"

S_PayCurly ==
    <<"P", "a", "y", " ", LDQ, "n", "e", "t", RDQ, " ", LSQ, "n", "o", "w", RSQ>>
S_VendorsFee == <<"V", "e", "n", "d", "o", "r", APOS, "s", "\t", "\t", "f", "e", "e", " ">>

PostNames ==
    {"high_ongoing", "low_dated", "medium_fence", "blank_summary",
     "curly_quotes", "tabs_apostrophe", "no_summary_key", "no_party_key"}

\* the records a caller can hand over: validated records, and records
\* that lack a key
PostRecord(name) ==
    CASE name \in {"high_ongoing", "low_dated", "medium_fence", "blank_summary"} ->
            ElemRecord(name)
      [] name = "curly_quotes" ->
            [obligation |-> S_PayCurly, responsibleParty |-> S_vendor,
             dueDate |-> S_slashDate, riskLevel |-> S_High, summary |-> S_Due]
      [] name = "tabs_apostrophe" ->
            [obligation |-> S_VendorsFee, responsibleParty |-> S_Acme,
             dueDate |-> S_dashDate, riskLevel |-> S_Low, summary |-> S_Due]
      [] name = "no_summary_key" ->
            [obligation |-> S_Pay, responsibleParty |-> S_vendor,
             dueDate |-> S_date, riskLevel |-> S_High]
      [] name = "no_party_key" ->
            [obligation |-> S_Pay, dueDate |-> S_date, riskLevel |-> S_Medium,
             summary |-> S_Due]

PostInputs == SeqsUpTo(PostNames, MaxElems)

PostInit ==
    /\ post_input \in PostInputs
    /\ post_done = FALSE
    /\ post_out = <<>>
    /\ PartyIdle
    /\ RiskIdle
    /\ FallbackIdle
    /\ GateIdle
    /\ ValIdle
    /\ PipeIdle
    /\ openai_client = FALSE
    /\ gemini_model = FALSE
    /\ consumer = "program"

PostProcessList ==
    /\ ~post_done
    /\ post_done' = TRUE
    /\ post_out' =
          _post_process_obligations([i \in DOMAIN post_input |-> PostRecord(post_input[i])])
    /\ UNCHANGED <<post_input, partyVars, riskVars, fbVars, gateVars, valVars, pipeVars>>

PostNext == PostProcessList

SpecPost == PostInit /\ [][PostNext]_vars

----------------------------------------------------------------------------
(* The gateway on its own: a program calls extract_obligations or, by     *)
(* name, _extract_with_fallback_prompt on a text                          *)

FallbackTexts == {S_Due, S_DueNoDot}

\* what a provider call of _extract_with_fallback_prompt can come to
FallbackResponses ==
    PipeResponses \cup {Descr(k, "bare", <<>>) : k \in {"object", "reversed"}}

\* lines 178-180 and 187-189: the validator's result for the response
FallbackValidated == [r \in FallbackResponses |-> validate_json_response(ResponseOf(r))]

\* lines 167-175
FallbackOpenAIRequest(text) ==
    OpenAIRequest("Extract contractual obligations in JSON format.",
                  Prompt("SIMPLE_EXTRACTION_PROMPT", text))

\* lines 162 and 186
FallbackGeminiRequest(text) == GeminiRequest(Prompt("SIMPLE_EXTRACTION_PROMPT", text))

FallbackInit ==
    /\ openai_client \in BOOLEAN
    /\ gemini_model \in BOOLEAN
    /\ consumer = "program"
    /\ \/ caller = "gateway" /\ pc = "openai"
       \/ caller = "fallback" /\ pc = "fb_openai"
    /\ contract_text \in FallbackTexts
    /\ doc = NoDoc
    /\ parser_used = ""
    /\ openai_resp = NoResponse
    /\ gemini_resp = NoResponse
    /\ obligations = <<>>
    /\ api_used = ""
    /\ processed = <<>>
    /\ result = NoResult
    /\ log = <<>>
    /\ requests = <<>>
    /\ processing = FALSE
    /\ extraction_results = NoResult
    /\ ui_status = ""
    /\ ui_message = NoMessage
    /\ GateIdle
    /\ ValIdle
    /\ UnitIdle

FallbackOpenAI_FallThrough ==
    /\ pc = "fb_openai"
    /\ IF openai_client
       THEN \E r \in FallbackResponses :
               /\ openai_resp' = r
               /\ log' = Append(log, "openai_call")
               /\ requests' = Append(requests, FallbackOpenAIRequest(contract_text))
               /\ IF r.kind # "raise" /\ Truthy(FallbackValidated[r])
                  THEN /\ fb_result' = FallbackValidated[r]
                       /\ pc' = "fb_returned"
                  ELSE /\ pc' = "fb_gemini"
                       /\ UNCHANGED fb_result
       ELSE /\ pc' = "fb_gemini"
            /\ UNCHANGED <<openai_resp, log, requests, fb_result>>
    /\ UNCHANGED <<caller, doc, contract_text, parser_used, gemini_resp, obligations,
                   api_used, processed, result>>
    /\ UNCHANGED <<configVars, uiVars, gateVars, valVars, partyVars, riskVars, postVars>>

\* _extract_with_fallback_prompt, lines 165-183: the return of line 180
\* leaves the function whatever the validator gave; the except of line 182
\* lets the function go on to Gemini
FallbackOpenAI ==
    /\ pc = "fb_openai"
    /\ IF openai_client
       THEN \E r \in FallbackResponses :
               /\ openai_resp' = r
               /\ log' = Append(log, "openai_call")
               /\ requests' = Append(requests, FallbackOpenAIRequest(contract_text))
               /\ IF r.kind # "raise"
                  THEN /\ fb_result' = FallbackValidated[r]
                       /\ pc' = "fb_returned"
                  ELSE /\ pc' = "fb_gemini"
                       /\ UNCHANGED fb_result
       ELSE /\ pc' = "fb_gemini"
            /\ UNCHANGED <<openai_resp, log, requests, fb_result>>
    /\ UNCHANGED <<caller, doc, contract_text, parser_used, gemini_resp, obligations,
                   api_used, processed, result>>
    /\ UNCHANGED <<configVars, uiVars, gateVars, valVars, partyVars, riskVars, postVars>>

\* _extract_with_fallback_prompt, lines 184-194
FallbackGemini ==
    /\ pc = "fb_gemini"
    /\ pc' = "fb_returned"
    /\ IF gemini_model
       THEN \E r \in FallbackResponses :
               /\ gemini_resp' = r
               /\ log' = Append(log, "gemini_call")
               /\ requests' = Append(requests, FallbackGeminiRequest(contract_text))
               /\ fb_result' = IF r.kind # "raise" THEN FallbackValidated[r] ELSE Absent
       ELSE /\ fb_result' = Absent
            /\ UNCHANGED <<gemini_resp, log, requests>>
    /\ UNCHANGED <<caller, doc, contract_text, parser_used, openai_resp, obligations,
                   api_used, processed, result>>
    /\ UNCHANGED <<configVars, uiVars, gateVars, valVars, partyVars, riskVars, postVars>>

FallbackNext ==
    \/ TryOpenAI
    \/ TryGemini
    \/ FallbackOpenAI
    \/ FallbackGemini

SpecFallback == FallbackInit /\ [][FallbackNext]_vars

----------------------------------------------------------------------------
(* What the claims speak of *)

InLog(e) == \E i \in DOMAIN log : log[i] = e

Count(e) == Cardinality({i \in DOMAIN log : log[i] = e})

Before(a, b) == \E i, j \in DOMAIN log : i < j /\ log[i] = a /\ log[j] = b

\* the provider was called in this request
Answered(r) == r # NoResponse

\* the response is a JSON array with at least one valid element
HasValid(r) == r.kind = "array" /\ \E i \in DOMAIN r.elems : r.elems[i] \in ValidElems

\* process_contract has returned an envelope
Returned_ == pc \in {"returned", "ui_done"} /\ result # NoResult

AggregateError == Err("All LLM APIs failed to extract obligations", <<>>)

\* the documents with a supported type, an extractable text and a text that
\* passes the gate
GoodDocs == {"txt_wordy", "pdf_short_long"}

----------------------------------------------------------------------------
\* C1: within a request the providers are tried in order, each at most
\* once: OpenAI first when it is configured, Gemini only when OpenAI is not
\* configured or was called before and raised or gave no valid obligation;
\* when OpenAI gives a valid obligation Gemini is not called and the
\* provider name is "OpenAI GPT-4".
C1_ProviderOrder ==
    /\ Count("openai_call") <= 1
    /\ Count("gemini_call") <= 1
    /\ InLog("openai_call") => openai_client
    /\ (InLog("gateway") /\ openai_client) => InLog("openai_call")
    /\ InLog("gemini_call") =>
          \/ ~openai_client
          \/ /\ Before("openai_call", "gemini_call")
             /\ ~HasValid(openai_resp)
    /\ (Answered(openai_resp) /\ HasValid(openai_resp)) =>
          /\ ~InLog("gemini_call")
          /\ gemini_resp = NoResponse
          /\ api_used = "OpenAI GPT-4"
          /\ Returned_ => (result.success /\ result.api_used = "OpenAI GPT-4")

\* OpenAI has answered with a valid obligation and the request has returned
\* without a call of the configured Gemini
C1_Witness ==
    /\ openai_client /\ gemini_model
    /\ pc = "returned"
    /\ HasValid(openai_resp)
    /\ ~InLog("gemini_call")
    /\ result.success /\ result.api_used = "OpenAI GPT-4"

\* C2: with both providers configured, when OpenAI answers without raising
\* but with no valid obligation, Gemini is called, and when Gemini answers
\* with a valid obligation the result is Gemini's list of valid obligations
\* under the name "Google Gemini".
C2_FallbackOnEmpty ==
    (/\ openai_client /\ gemini_model
     /\ openai_resp.kind \in {"none", "garbage", "array"}
     /\ ~HasValid(openai_resp)
     /\ pc # "gemini")
        => /\ InLog("gemini_call")
           /\ Answered(gemini_resp)
           /\ HasValid(gemini_resp) =>
                 /\ obligations = ValidRecords(gemini_resp.elems)
                 /\ api_used = "Google Gemini"
                 /\ Returned_ => (result.success /\ result.api_used = "Google Gemini")

\* OpenAI answered an array whose only element has riskLevel "low", and the
\* request has returned Gemini's obligation
C2_Witness ==
    /\ openai_client /\ gemini_model
    /\ pc = "returned"
    /\ openai_resp = Descr("array", "bare", <<"bad_risk">>)
    /\ gemini_resp = Descr("array", "bare", <<"low_dated">>)
    /\ result.success
    /\ result.api_used = "Google Gemini"
    /\ Len(result.obligations) = 1

\* every configured provider was called and raised or gave no valid
\* obligation (which is the case when none is configured)
AllProvidersFailed ==
    /\ openai_client => (Answered(openai_resp) /\ ~HasValid(openai_resp))
    /\ gemini_model => (Answered(gemini_resp) /\ ~HasValid(gemini_resp))

\* C3: a request that reached the gateway ends in the failure envelope with
\* the aggregate error exactly when every configured provider failed or
\* none is configured; otherwise it ends in success.
C3_AggregateFailure ==
    (Returned_ /\ InLog("gateway")) =>
        /\ AllProvidersFailed <=> result = FailureEnvelope(AggregateError)
        /\ ~AllProvidersFailed <=> result.success

\* OpenAI raised, Gemini gave a valid obligation: the request succeeded
C3_Witness ==
    /\ pc = "returned"
    /\ openai_client /\ gemini_model
    /\ openai_resp.kind = "raise"
    /\ HasValid(gemini_resp)
    /\ result.success

\* C4: whatever the document, every return of process_contract is an
\* envelope, and a failed one has success = false, an error message, no
\* obligation and a total of 0.
C4_AlwaysEnvelope ==
    (pc \in {"returned", "ui_done"} /\ log # <<>>) =>
        /\ "success" \in DOMAIN result
        /\ ~result.success =>
              /\ DOMAIN result = {"success", "error", "obligations", "total_obligations"}
              /\ result.error.msg # ""
              /\ result.obligations = <<>>
              /\ result.total_obligations = 0

\* a request for a file of an unsupported type has returned a failure
C4_Witness ==
    /\ pc = "returned"
    /\ doc = "docx"
    /\ ~result.success
    /\ result.error = Err("Unsupported file type: ", FT_docx)

\* C5: the gateway is entered, and a provider called, only after text
\* extraction and then the validity gate have run on a document that
\* passes both; a request for any other document returns a failure without
\* a provider call.
C5_GateBeforeGateway ==
    /\ (InLog("gateway") \/ InLog("openai_call") \/ InLog("gemini_call")) =>
          /\ doc \in GoodDocs
          /\ Before("extract_text", "validate_text")
          /\ Before("validate_text", "gateway")
    /\ InLog("openai_call") => Before("gateway", "openai_call")
    /\ InLog("gemini_call") => Before("gateway", "gemini_call")
    /\ (Returned_ /\ doc \notin GoodDocs) =>
          /\ ~result.success
          /\ ~InLog("gateway") /\ ~InLog("openai_call") /\ ~InLog("gemini_call")
          /\ openai_resp = NoResponse /\ gemini_resp = NoResponse

\* the 5-byte text file has been refused by the gate, with a provider
\* configured
C5_Witness ==
    /\ pc = "returned"
    /\ doc = "txt_hello"
    /\ openai_client
    /\ result = FailureEnvelope(Err("Contract text is too short or invalid", <<>>))
    /\ log = <<"extract_text", "validate_text">>

\* C7: with no provider configured the readiness status is not ready, no
\* provider is ever called and every envelope process_contract returns is a
\* failure.
C7_NoProviderNoCall ==
    (~openai_client /\ ~gemini_model) =>
        /\ ~get_system_status.system_ready
        /\ ~InLog("openai_call") /\ ~InLog("gemini_call")
        /\ openai_resp = NoResponse /\ gemini_resp = NoResponse
        /\ Returned_ => ~result.success

\* with no provider configured, a request for a good document has run text
\* extraction and the gate and has failed in the gateway
C7_Witness ==
    /\ ~openai_client /\ ~gemini_model
    /\ pc = "returned"
    /\ doc \in GoodDocs
    /\ log = <<"extract_text", "validate_text", "gateway">>
    /\ result = FailureEnvelope(AggregateError)

NotReadyMessage == Message("System not ready. Please check API keys.", NoErr)

\* C8 (as stated): with no provider available, process_contract of the
\* orchestrator runs neither text extraction nor the gate nor the gateway.
C8_AsStated ==
    (~openai_client /\ ~gemini_model) => log = <<>>

\* C8 (amended): the readiness check is made by the dashboard's handler
\* main.process_contract before it calls the orchestrator: with no provider
\* available a request made through the handler ends with the "System not
\* ready" message and without text extraction, gate, gateway or envelope.
C8_HandlerChecksReadiness ==
    (~openai_client /\ ~gemini_model /\ caller = "ui") =>
        /\ pc = "ui_done"
        /\ log = <<>>
        /\ result = NoResult
        /\ ui_message = NotReadyMessage
        /\ ~processing

\* the handler has refused a request because no provider is configured
C8_Witness ==
    /\ ~openai_client /\ ~gemini_model
    /\ caller = "ui"
    /\ pc = "ui_done"
    /\ ui_message = NotReadyMessage

----------------------------------------------------------------------------
\* C6 (as stated): the gate accepts a text exactly when it has at least 50
\* non-whitespace characters and at least 20 whitespace-delimited words.
C6_AsStated ==
    gate_done =>
        (gate_ok <=> (NonWsCount(gate_text) >= 50 /\ gate_params.n >= 20))

\* the length of the text between its first and last non-blank character
TrimmedLen(p) == IF p.n = 0 THEN 0 ELSE p.n * p.w + (p.n - 1) * p.sep

\* C6 (amended): the gate accepts a text exactly when the text without its
\* leading and trailing whitespace, interior whitespace included, is at
\* least 50 characters long and it has at least 20 words.
C6_Gate ==
    gate_done =>
        (gate_ok <=> (TrimmedLen(gate_params) >= 50 /\ gate_params.n >= 20))

\* a text of 20 or more words whose 50 characters are reached only with the
\* blanks between the words, accepted
C6_Witness ==
    /\ gate_done /\ gate_ok
    /\ NonWsCount(gate_text) < 50
    /\ gate_params.n >= 20

----------------------------------------------------------------------------
\* C9: for a JSON array with at least one valid element the validator
\* returns exactly the valid elements, in their order, each with its fields
\* as written except that a dueDate spelling of "ongoing" has become
\* "Ongoing".
C9_ValidSubset ==
    (val_done /\ val_input.kind = "array" /\ ValidRecords(val_input.elems) # <<>>)
        => val_result = Present(ValidRecords(val_input.elems))

\* C10: the validator never returns an empty list: a result that is not
\* absent has at least one obligation, and an array that is empty or has no
\* valid element gives the absent result.
C10_NeverEmptyList ==
    val_done =>
        /\ ~val_result.absent => Len(val_result.items) >= 1
        /\ (val_input.kind = "array" /\ ValidRecords(val_input.elems) = <<>>)
              => val_result.absent

\* an array of two invalid elements has been validated to the absent result
C10_Witness ==
    /\ val_done
    /\ val_input.kind = "array"
    /\ Len(val_input.elems) = 2
    /\ ValidRecords(val_input.elems) = <<>>
    /\ val_result = Absent

----------------------------------------------------------------------------
FieldNames == {"obligation", "responsibleParty", "dueDate", "riskLevel", "summary"}

\* C11: validate_json_response never raises: for every response, a
\* response without text, a text that is no JSON, a JSON value that is no
\* array and an array with elements that are no objects included, it
\* returns the absent result or a list of validated obligation records.
C11_NeverRaises ==
    val_done =>
        \/ val_result = Absent
        \/ /\ val_result = Present(val_result.items)
           /\ \A i \in DOMAIN val_result.items :
                 /\ DOMAIN val_result.items[i] = FieldNames
                 /\ val_result.items[i].riskLevel \in valid_levels

\* a response without text has been given the absent result
C11_Witness ==
    /\ val_done
    /\ val_input.kind = "none"
    /\ val_result = Absent

\* C12 (as stated): a response whose top-level JSON value is an object,
\* an object that wraps an array of valid obligations included, gives the
\* absent result.
C12_AsStated ==
    (val_done /\ val_input.kind \in {"object", "wrapped"}) => val_result = Absent

\* C12 (amended): the value that must be an array is the candidate text,
\* from the first "[" to the last "]" of the response.  An object without
\* brackets gives the absent result; an object that wraps an array gives
\* what the wrapped array alone gives, its valid obligations when it has
\* some.
C12_CandidateIsArray ==
    val_done =>
        /\ val_input.kind = "object" => val_result = Absent
        /\ val_input.kind = "wrapped" =>
              /\ val_result =
                    validate_json_response(ResponseOf(Descr("array", "bare", val_input.elems)))
              /\ val_input.elems = <<"low_dated">> =>
                    val_result = Present(<<ElemRecord("low_dated")>>)

\* an object that wraps an array with a valid obligation has been given a
\* list
C12_Witness ==
    /\ val_done
    /\ val_input = Descr("wrapped", "bare", <<"bad_risk", "low_dated">>)
    /\ val_result = Present(<<ElemRecord("low_dated")>>)

\* C13: in the validator every spelling of "ongoing", whatever the case of
\* its letters, becomes "Ongoing"; every other dueDate text, a date in one
\* of the three formats or not, is returned as it is, and the element is
\* accepted whatever its dueDate text.
C13_DueDate ==
    (val_done /\ val_input.kind = "due") =>
        val_result =
            Present(<<[obligation |-> S_Pay,
                       responsibleParty |-> S_vendor,
                       dueDate |-> IF val_input.elems[1] \in CaseVariants(S_ongoing)
                                   THEN S_Ongoing
                                   ELSE val_input.elems[1],
                       riskLevel |-> S_High,
                       summary |-> S_Due]>>)

\* an element with the dueDate "ONGOING" has been accepted with "Ongoing"
C13_Witness ==
    /\ val_done
    /\ val_input = Descr("due", "bare", <<S_ONGOING>>)
    /\ ~val_result.absent
    /\ val_result.items[1].dueDate = S_Ongoing

----------------------------------------------------------------------------
AllowedLevels == {<<"L", "o", "w">>, <<"M", "e", "d", "i", "u", "m">>, <<"H", "i", "g", "h">>}

HasAllowedLevels(obls) == \A i \in DOMAIN obls : obls[i].riskLevel \in AllowedLevels

\* an array whose elements all have a riskLevel in the wrong letter case
OnlyWrongCase(r) ==
    /\ r.kind = "array"
    /\ r.elems # <<>>
    /\ \A i \in DOMAIN r.elems : r.elems[i] \in {"bad_risk", "upper_risk"}

\* the validator on "low" alone, on "HIGH" alone and on "HIGH" next to "High"
WrongCaseRejected ==
    /\ validate_json_response(ResponseOf(Descr("array", "bare", <<"bad_risk">>))) = Absent
    /\ validate_json_response(ResponseOf(Descr("array", "bare", <<"upper_risk">>))) = Absent
    /\ validate_json_response(ResponseOf(Descr("array", "bare", <<"upper_risk", "high_ongoing">>)))
          = Present(<<ElemRecord("high_ongoing")>>)

\* C14: the validator accepts an element only when its riskLevel is exactly
\* Low, Medium or High ("low" and "HIGH" are rejected), so that every
\* obligation of a gateway result, of a post-processed list and of an
\* envelope has one of these three levels.
C14_RiskLevels ==
    /\ WrongCaseRejected
    /\ HasAllowedLevels(obligations)
    /\ HasAllowedLevels(processed)
    /\ Returned_ => HasAllowedLevels(result.obligations)
    /\ extraction_results # NoResult => HasAllowedLevels(extraction_results.obligations)
    /\ OnlyWrongCase(openai_resp) => api_used # "OpenAI GPT-4"
    /\ OnlyWrongCase(gemini_resp) => api_used # "Google Gemini"

\* the only provider answered an array whose element has riskLevel "low",
\* and the request has failed
C14_Witness ==
    /\ pc = "returned"
    /\ openai_client /\ ~gemini_model
    /\ OnlyWrongCase(openai_resp)
    /\ result = FailureEnvelope(AggregateError)

\* C16: in every envelope process_contract returns, successful or failed,
\* total_obligations is the length of obligations, and in a successful one
\* it is also the total of the risk summary.
C16_TotalIsLength ==
    Returned_ =>
        /\ result.total_obligations = Len(result.obligations)
        /\ result.success => result.risk_summary.total_obligations = result.total_obligations

\* a successful envelope with one obligation and a total of 1
C16_Witness ==
    /\ pc = "returned"
    /\ result.success
    /\ Len(result.obligations) = 1
    /\ result.total_obligations = 1
    /\ result.risk_summary.total_obligations = 1

\* C17: an envelope is wholly successful or wholly failed: api_used is
\* there exactly on success and is then "OpenAI GPT-4" or "Google Gemini",
\* error is there exactly on failure, and no envelope has both an
\* obligation and an error.
C17_WhollyOneOrOther ==
    Returned_ =>
        /\ ("api_used" \in DOMAIN result) <=> result.success
        /\ result.success => result.api_used \in {"OpenAI GPT-4", "Google Gemini"}
        /\ ("error" \in DOMAIN result) <=> ~result.success
        /\ ~("error" \in DOMAIN result /\ result.obligations # <<>>)

\* a failed envelope without api_used, after a provider was called
C17_Witness ==
    /\ pc = "returned"
    /\ InLog("gemini_call")
    /\ ~result.success
    /\ "api_used" \notin DOMAIN result
    /\ "error" \in DOMAIN result

PdfDocNames ==
    {"PDF_long_long", "pdf_long_raise", "pdf_raise_long", "pdf_short_long",
     "pdf_100_dense", "pdf_short_short", "pdf_short_raise", "pdf_raise_short",
     "pdf_raise_raise"}

ExtractionFailed == FailureEnvelope(Err("Failed to extract text from PDF with both parsers", <<>>))

\* C18 (as stated): the primary text is returned as "PyMuPDF" exactly when
\* the primary strategy did not raise and gave more than 100 non-whitespace
\* characters, and the secondary text as "pdfminer" under the same test.
C18_AsStated ==
    (doc \in PdfDocNames /\ InLog("extract_text")) =>
        LET p == ~DocOf(doc).pymupdf.raise /\ NonWsCount(DocOf(doc).pymupdf.text) > 100
            q == ~DocOf(doc).pdfminer.raise /\ NonWsCount(DocOf(doc).pdfminer.text) > 100
        IN  /\ parser_used = "PyMuPDF" <=> p
            /\ parser_used = "pdfminer" <=> (~p /\ q)

\* the length of what each strategy gives for a PDF, without the
\* whitespace at both ends; -1 is an exception
PdfLengths(name) ==
    CASE name = "PDF_long_long" -> <<101, 101>>
      [] name = "pdf_long_raise" -> <<101, -1>>
      [] name = "pdf_raise_long" -> <<-1, 101>>
      [] name = "pdf_short_long" -> <<39, 104>>
      [] name = "pdf_100_dense" -> <<100, 103>>
      [] name = "pdf_short_short" -> <<39, 39>>
      [] name = "pdf_short_raise" -> <<39, -1>>
      [] name = "pdf_raise_short" -> <<-1, 39>>
      [] name = "pdf_raise_raise" -> <<-1, -1>>

\* C18 (amended): the threshold is on the length of the text without its
\* leading and trailing whitespace, interior whitespace counted.  The
\* primary text is returned as "PyMuPDF" exactly when the primary strategy
\* did not raise and that length is over 100; otherwise, and only then, the
\* secondary strategy runs and its text is returned as "pdfminer" under
\* the same test; when both fail the request fails with the extraction
\* error.  Primary 39 and secondary 104 characters: parser_used is
\* "pdfminer".
C18_PdfFallback ==
    (doc \in PdfDocNames /\ InLog("extract_text")) =>
        LET p == PdfLengths(doc)[1] > 100
            q == PdfLengths(doc)[2] > 100
        IN  /\ InLog("pymupdf")
            /\ InLog("pdfminer") <=> ~p
            /\ p => (parser_used = "PyMuPDF" /\ contract_text = DocOf(doc).pymupdf.text)
            /\ (~p /\ q) =>
                  (parser_used = "pdfminer" /\ contract_text = DocOf(doc).pdfminer.text)
            /\ (~p /\ ~q) => (parser_used = "" /\ result = ExtractionFailed)
            /\ (doc = "pdf_short_long" /\ Returned_ /\ result.success) =>
                  result.parser_used = "pdfminer"

\* the PDF whose primary text has 39 characters and whose secondary text
\* has 104 has been processed with the secondary strategy
C18_Witness ==
    /\ pc = "returned"
    /\ doc = "pdf_short_long"
    /\ Before("pymupdf", "pdfminer")
    /\ result.success
    /\ result.parser_used = "pdfminer"

\* C20: every obligation of a successful envelope has a summary that is
\* not empty, has no whitespace at either end and ends with a period,
\* whatever summary text the validator accepted.
C20_SummaryShape ==
    (Returned_ /\ result.success) =>
        \A i \in DOMAIN result.obligations :
            /\ result.obligations[i].summary # <<>>
            /\ Strip(result.obligations[i].summary) = result.obligations[i].summary
            /\ EndsWith(result.obligations[i].summary, ".")

----------------------------------------------------------------------------
\* name is key in some mix of letter cases
SameLetters(name, key) ==
    /\ Len(name) = Len(key)
    /\ \A i \in 1..Len(key) : name[i] = key[i] \/ name[i] = UpperChar(key[i])

\* C15: sanitize_party_name gives, for a name that is a key of the table
\* in any mix of letter cases, with or without blanks around it, the
\* canonical form of that key, and for every other name the name without
\* the blanks around it; applied to its own result it returns that result.
C15_PartyName ==
    /\ Len(party_out) >= 1 =>
          party_out[1] =
              IF \E i \in 1..Len(party_mappings) :
                    SameLetters(party_input.core, party_mappings[i][1])
              THEN party_mappings[CHOOSE i \in 1..Len(party_mappings) :
                                     SameLetters(party_input.core, party_mappings[i][1])][2]
              ELSE party_input.core
    /\ Len(party_out) = 2 => party_out[2] = party_out[1]

\* " PARTY A " has been normalized to "Party A", and "Party A" to itself
C15_Witness ==
    /\ party_input = [lead |-> 1, core |-> <<"P", "A", "R", "T", "Y", " ", "A">>, trail |-> 1]
    /\ party_out = << <<"P", "a", "r", "t", "y", " ", "A">>,
                      <<"P", "a", "r", "t", "y", " ", "A">> >>

\* how often level occurs in levels
RECURSIVE Occurrences(_, _)
Occurrences(levels, level) ==
    IF levels = <<>> THEN 0
    ELSE (IF Head(levels) = level THEN 1 ELSE 0) + Occurrences(Tail(levels), level)

\* the fraction f is c / n * 100, and 0 when n is 0
IsPercentOf(f, c, n) ==
    IF n = 0 THEN f.num = 0 ELSE f.num * n = c * 100 * f.den

\* C19: the risk summary counts the obligations of each level, the three
\* counts add up to the length of the list, each percentage is
\* count / total * 100 and 0 for the empty list; three High and one Medium
\* give 75, 25 and 0.
C19_RiskSummary ==
    risk_done =>
        LET n == Len(risk_input)
            low == Occurrences(risk_input, S_Low)
            medium == Occurrences(risk_input, S_Medium)
            high == Occurrences(risk_input, S_High)
        IN  /\ risk_summary.total_obligations = n
            /\ risk_summary.risk_breakdown = [Low |-> low, Medium |-> medium, High |-> high]
            /\ risk_summary.risk_breakdown.Low + risk_summary.risk_breakdown.Medium
                  + risk_summary.risk_breakdown.High = n
            /\ IsPercentOf(risk_summary.low_risk_percentage, low, n)
            /\ IsPercentOf(risk_summary.medium_risk_percentage, medium, n)
            /\ IsPercentOf(risk_summary.high_risk_percentage, high, n)
            /\ (high = 3 /\ medium = 1 /\ low = 0) =>
                  /\ risk_summary.high_risk_percentage.num
                        = 75 * risk_summary.high_risk_percentage.den
                  /\ risk_summary.medium_risk_percentage.num
                        = 25 * risk_summary.medium_risk_percentage.den
                  /\ risk_summary.low_risk_percentage.num = 0

\* the list High, High, Medium, High has been summarized with 75 per cent
\* of high risk
C19_Witness ==
    /\ risk_done
    /\ risk_input = <<S_High, S_High, S_Medium, S_High>>
    /\ risk_summary.risk_breakdown = [Low |-> 0, Medium |-> 1, High |-> 3]
    /\ risk_summary.high_risk_percentage.num = 75 * risk_summary.high_risk_percentage.den

----------------------------------------------------------------------------
\* C21: every obligation of a successful envelope has an obligation text
\* that is not empty: an element whose obligation field is empty or
\* whitespace only does not reach the result list.
C21_ObligationNotEmpty ==
    (Returned_ /\ result.success) =>
        \A i \in DOMAIN result.obligations : result.obligations[i].obligation # <<>>

----------------------------------------------------------------------------
StageOrder == <<"extract_text", "validate_text", "gateway", "post_process", "risk_summary">>

IsStage(e) == \E i \in DOMAIN StageOrder : StageOrder[i] = e

\* the stages that have run in this request, in order
StagesRun == SelectSeq(log, IsStage)

\* what a failure at the given stage leaves as the error of the envelope
StageErrors(stage) ==
    CASE stage = "extract_text" ->
            {Err("Unsupported file type: ", FT_docx),
             Err("Failed to extract text from PDF with both parsers", <<>>)}
      [] stage = "validate_text" -> {Err("Contract text is too short or invalid", <<>>)}
      [] stage = "gateway" -> {Err("All LLM APIs failed to extract obligations", <<>>)}
      [] OTHER -> {}

\* C22: within a call of process_contract the stages run in the order text
\* extraction, text validation, gateway, post-processing, risk summary,
\* each at most once; a call that fails ends with the error raised at the
\* last stage that ran, and a call that succeeds has run all five.
C22_StageOrder ==
    /\ Len(StagesRun) <= Len(StageOrder)
    /\ StagesRun = SubSeq(StageOrder, 1, Len(StagesRun))
    /\ Returned_ =>
          /\ StagesRun # <<>>
          /\ result.success => StagesRun = StageOrder
          /\ ~result.success => result.error \in StageErrors(StagesRun[Len(StagesRun)])

\* a PDF whose secondary text was extracted has been refused by the gate,
\* and nothing ran after the gate
C22_Witness ==
    /\ pc = "returned"
    /\ doc = "pdf_100_dense"
    /\ log = <<"extract_text", "pymupdf", "pdfminer", "validate_text">>
    /\ result = FailureEnvelope(Err("Contract text is too short or invalid", <<>>))

----------------------------------------------------------------------------
\* the records that have the three keys post-processing reads
CompleteNames ==
    {"high_ongoing", "low_dated", "medium_fence", "blank_summary",
     "curly_quotes", "tabs_apostrophe"}

IsComplete(name) == name \in CompleteNames

PostKept == SelectSeq(post_input, IsComplete)

\* C23: post-processing is per record: a record that lacks a key is
\* dropped without failing the call, and every other record is kept, in
\* the order given, with its riskLevel and dueDate as they were and the
\* confidence 0.85.
C23_PerRecord ==
    post_done =>
        /\ Len(post_out) = Len(PostKept)
        /\ \A k \in DOMAIN post_out :
              /\ DOMAIN post_out[k] = FieldNames \cup {"confidence"}
              /\ post_out[k].riskLevel = PostRecord(PostKept[k]).riskLevel
              /\ post_out[k].dueDate = PostRecord(PostKept[k]).dueDate
              /\ post_out[k].confidence = 85

\* of a record without summary, a complete record and a record without
\* responsibleParty, the complete one alone has been returned
C23_Witness ==
    /\ post_done
    /\ Len(post_input) >= 2
    /\ post_input[1] = "no_summary_key"
    /\ post_input[2] = "low_dated"
    /\ Len(post_out) = 1
    /\ post_out[1].riskLevel = S_Low
    /\ post_out[1].dueDate = S_date

\* the obligation text of each record as the cleanup is said to leave it:
\* whitespace runs collapsed, curly quotes made plain, plain quotes kept
CleanObligation(name) ==
    CASE name = "high_ongoing" -> <<"P", "a", "y", " ", "f", "e", "e">>
      [] name = "low_dated" ->
            <<"P", "a", "y", " ", Q, "n", "e", "t", Q, " ", "f", "e", "e">>
      [] name = "medium_fence" ->
            <<"M", "a", "r", "k", " ", BQ, BQ, BQ, "j", "s", "o", "n", " ", "x">>
      [] name = "blank_summary" -> <<"P", "a", "y", " ", "f", "e", "e">>
      [] name = "curly_quotes" ->
            <<"P", "a", "y", " ", Q, "n", "e", "t", Q, " ", APOS, "n", "o", "w", APOS>>
      [] name = "tabs_apostrophe" ->
            <<"V", "e", "n", "d", "o", "r", APOS, "s", " ", "f", "e", "e">>

\* C24: the cleanup of the obligation text makes one blank of every run of
\* whitespace and plain quotes of curly quotes; plain double quotes and
\* apostrophes stay, and nothing else is added or removed.
C24_ObligationCleanup ==
    post_done =>
        \A k \in DOMAIN post_out : post_out[k].obligation = CleanObligation(PostKept[k])

----------------------------------------------------------------------------
\* C25: every provider call of a request, to OpenAI or to Gemini, sends
\* the one prompt template with the contract text in it, with the
\* configured output-token budget and the configured temperature.
C25_RequestParameters ==
    \A i \in DOMAIN requests :
        /\ requests[i].prompt = Prompt("OBLIGATION_EXTRACTION_PROMPT", contract_text)
        /\ "max_tokens" \in DOMAIN requests[i]
        /\ requests[i].max_tokens = MAX_TOKENS
        /\ "temperature" \in DOMAIN requests[i]
        /\ requests[i].temperature = TEMPERATURE

\* the response has a "[" and a later "]"
HasBracketPair(d) == d.kind \in {"wrapped", "array", "due"}

\* C26: when the response has a bracket pair the candidate is the text
\* from the first "[" to the last "]", which for an array in markup or
\* prose is the array; when it has none, one bracket alone or a "]" before
\* the "[" included, the candidate is the whole text without the
\* whitespace at its ends.
C26_Candidate ==
    (val_done /\ val_input.kind # "none") =>
        /\ HasBracketPair(val_input) =>
              /\ val_candidate # <<>>
              /\ Head(val_candidate) = "["
              /\ val_candidate[Len(val_candidate)] = "]"
        /\ (val_input.kind \in {"wrapped", "array"}
               /\ \A i \in DOMAIN val_input.elems : val_input.elems[i] # "medium_fence")
              => val_candidate = ArrayText(val_input)
        /\ val_input.kind = "garbage" => val_candidate = S_Sorry
        /\ val_input.kind = "object" => val_candidate = ElemText("high_ongoing")
        /\ val_input.kind = "only_open" => val_candidate = <<"[", " ", "x">>
        /\ val_input.kind = "only_close" => val_candidate = <<"x", " ", "]">>
        /\ val_input.kind = "reversed" => val_candidate = S_Reversed

\* C27: a successful envelope has at least one obligation: the gateway
\* returns no empty list and post-processing drops no validated record.
C27_SuccessNotEmpty ==
    /\ pc \in {"post_process", "summarize"} => Len(obligations) >= 1
    /\ pc = "summarize" => Len(processed) = Len(obligations)
    /\ (Returned_ /\ result.success) =>
          /\ result.total_obligations >= 1
          /\ Len(result.obligations) >= 1
          /\ Len(result.obligations) = Len(obligations)

\* Gemini's one validated record has come out of post-processing and into
\* a successful envelope
C27_Witness ==
    /\ pc = "returned"
    /\ api_used = "Google Gemini"
    /\ Len(obligations) = 1
    /\ Len(processed) = 1
    /\ result.success
    /\ result.total_obligations = 1

\* C28: when the extractor has returned a failure envelope to the
\* dashboard's handler, the status is "Processing failed" and the message
\* shown is the error of the envelope.
C28_FailureBranch ==
    (pc = "ui_done" /\ result # NoResult /\ ~result.success) =>
        /\ ui_status = "Processing failed"
        /\ ui_message = Message("Error: ", result.error)

\* C29: in a session of the dashboard extraction_results changes only to
\* the successful envelope of the request that ends, so that a failed or
\* refused request leaves the stored result as it was, and processing is
\* false after every request.
C29_ResultsKept ==
    /\ [](pc \in {"idle", "ui_done"} => ~processing)
    /\ [][extraction_results' # extraction_results =>
              /\ pc = "returned" /\ caller = "ui"
              /\ result.success
              /\ extraction_results' = result]_vars

\* a request has failed after a successful one, and the stored result is
\* still the successful envelope
C29_Witness ==
    /\ pc = "ui_done"
    /\ result # NoResult
    /\ ~result.success
    /\ extraction_results # NoResult
    /\ extraction_results.success
    /\ ~processing

\* C30: extract_obligations sends the main template only and never enters
\* _extract_with_fallback_prompt; a call of _extract_with_fallback_prompt
\* ends in a return, gives absent when no provider is configured, calls
\* Gemini only when OpenAI is not configured or its call raised, and
\* returns what the validator made of OpenAI's response, absent included,
\* without calling Gemini.
C30_FallbackPrompt ==
    /\ caller = "gateway" =>
          /\ pc \in {"openai", "gemini", "post_process", "returned"}
          /\ fb_result = Absent
          /\ \A i \in DOMAIN requests :
                requests[i].prompt.template = "OBLIGATION_EXTRACTION_PROMPT"
    /\ caller = "fallback" =>
          /\ pc \in {"fb_openai", "fb_gemini", "fb_returned"}
          /\ \A i \in DOMAIN requests :
                requests[i].prompt.template = "SIMPLE_EXTRACTION_PROMPT"
          /\ (~openai_client /\ ~gemini_model) => (fb_result = Absent /\ requests = <<>>)
          /\ InLog("gemini_call") => (~openai_client \/ openai_resp.kind = "raise")
          /\ (pc = "fb_returned" /\ openai_client /\ openai_resp.kind # "raise") =>
                /\ fb_result = validate_json_response(ResponseOf(openai_resp))
                /\ gemini_resp = NoResponse
                /\ ~InLog("gemini_call")
          /\ (pc = "fb_returned" /\ gemini_resp.kind = "raise") => fb_result = Absent

\* with both providers configured, OpenAI's answer was no JSON: absent is
\* returned and Gemini has not been called
C30_Witness ==
    /\ caller = "fallback"
    /\ pc = "fb_returned"
    /\ openai_client
    /\ gemini_model
    /\ openai_resp.kind = "garbage"
    /\ gemini_resp = NoResponse
    /\ fb_result = Absent

====
